---- MODULE Spec2Model ----
(***************************************************************************)
(* The BitOps trait of src/lib.rs: four read-only bit queries that every   *)
(* primitive integer with From<u8> gains through the blanket impl.         *)
(*                                                                         *)
(* The trait is generic; the model instantiates it with u8, u16 and i16.   *)
(* The operators <<, >> and - of Rust's primitive integers inherit the     *)
(* overflow checks of the crate that is being built: with the checks on    *)
(* (the dev and test profiles) an over-wide shift or an overflowing        *)
(* subtraction panics, with the checks off (the release profile) the shift *)
(* amount is masked to the type's width and the subtraction wraps.  The    *)
(* build is therefore part of the state, and both builds are explored.     *)
(***************************************************************************)
EXTENDS Integers, Sequences, FiniteSets

VARIABLES
    T,                \* the concrete integer type N of `impl<N> BitOps for N`
    overflow_checks,  \* whether the build has overflow checks on
    self,             \* the receiver, *self
    op,               \* the method that was called, "none" before the call
    bit,              \* the u8 argument `bit`
    count,            \* the u8 argument `count`
    flag,             \* the argument `flag` of is_flag_set
    result            \* how the call ended: [kind, val]

vars == <<T, overflow_checks, self, op, bit, count, flag, result>>

(***************************************************************************)
(* Bounds of the exploration.                                              *)
(***************************************************************************)
\* bit indexes and counts run from 0 to MaxOver past the width of the type
MaxOver == 2
\* a 16-bit receiver or flag lies within MaxNear of zero or of a power of two
MaxNear == 1

RECURSIVE Pow2(_)
Pow2(n) == IF n = 0 THEN 1 ELSE 2 * Pow2(n - 1)

(***************************************************************************)
(* The integer types: two's complement, `bits` wide.                       *)
(***************************************************************************)
Types ==
    { [name |-> "u8",  bits |-> 8,  signed |-> FALSE],
      [name |-> "u16", bits |-> 16, signed |-> FALSE],
      [name |-> "i16", bits |-> 16, signed |-> TRUE] }

MinValue(ty) == IF ty.signed THEN 0 - Pow2(ty.bits - 1) ELSE 0
MaxValue(ty) == IF ty.signed THEN Pow2(ty.bits - 1) - 1 ELSE Pow2(ty.bits) - 1

\* the bit pattern of a value, as a natural number below 2^bits
Pattern(ty, v) == v % Pow2(ty.bits)
\* the value a bit pattern stands for
FromPattern(ty, p) ==
    IF ty.signed /\ p >= Pow2(ty.bits - 1) THEN p - Pow2(ty.bits) ELSE p
\* the value an integer wraps to
Wrap(ty, n) == FromPattern(ty, n % Pow2(ty.bits))

zero(ty) == 0
one(ty) == 1
\* Self::from(u8): zero extension of the eight bits
from_u8(ty, b) == FromPattern(ty, b % Pow2(8))

(***************************************************************************)
(* An evaluation either yields a value, <<x>>, or panics, <<>>.            *)
(***************************************************************************)
Panic == <<>>
Some(x) == <<x>>
Panicked(r) == r = <<>>

RECURSIVE AndPattern(_, _, _)
AndPattern(a, b, w) ==
    IF w = 0 THEN 0
    ELSE (a % 2) * (b % 2) + 2 * AndPattern(a \div 2, b \div 2, w - 1)

\* a & b
bitand(ty, a, b) ==
    FromPattern(ty, AndPattern(Pattern(ty, a), Pattern(ty, b), ty.bits))

\* the shift amount the hardware sees when the checks are off
MaskShift(ty, n) == Pattern(ty, n) % ty.bits

\* the bits of a moved n places up, those past the width dropped
ShlBits(ty, a, n) ==
    FromPattern(ty, (Pattern(ty, a) % Pow2(ty.bits - n)) * Pow2(n))
\* a moved n places down: arithmetic for a signed type, logical otherwise
ShrBits(ty, a, n) == a \div Pow2(n)

\* a << n
shl(ty, chk, a, n) ==
    IF n < 0 \/ n >= ty.bits
    THEN IF chk THEN Panic ELSE Some(ShlBits(ty, a, MaskShift(ty, n)))
    ELSE Some(ShlBits(ty, a, n))

\* a >> n
shr(ty, chk, a, n) ==
    IF n < 0 \/ n >= ty.bits
    THEN IF chk THEN Panic ELSE Some(ShrBits(ty, a, MaskShift(ty, n)))
    ELSE Some(ShrBits(ty, a, n))

\* a - b
sub(ty, chk, a, b) ==
    IF a - b < MinValue(ty) \/ a - b > MaxValue(ty)
    THEN IF chk THEN Panic ELSE Some(Wrap(ty, a - b))
    ELSE Some(a - b)

(***************************************************************************)
(* The four methods.                                                       *)
(***************************************************************************)
\* is_flag without the comparison with zero
is_flag_any_sign(ty, chk, v) ==
    LET d == sub(ty, chk, v, one(ty))
    IN  IF Panicked(d) THEN Panic
        ELSE Some(bitand(ty, v, d[1]) = zero(ty))

\* is_flag with both operands evaluated, as with & in place of &&
is_flag_eager(ty, chk, v) ==
    LET d == sub(ty, chk, v, one(ty))
    IN  IF Panicked(d) THEN Panic
        ELSE Some(v > zero(ty) /\ bitand(ty, v, d[1]) = zero(ty))

\* *self > 0 && (*self & (*self - 1)) == 0, the subtraction behind the &&
is_flag(ty, chk, v) ==
    IF ~(v > zero(ty)) THEN Some(FALSE)
    ELSE LET d == sub(ty, chk, v, one(ty))
         IN  IF Panicked(d) THEN Panic
             ELSE Some(bitand(ty, v, d[1]) = zero(ty))

\* *self & flag > 0
is_flag_set(ty, chk, v, f) == Some(bitand(ty, v, f) > zero(ty))

\* self.is_flag_set(1 << Self::from(bit))
is_bit_set(ty, chk, v, b) ==
    LET m == shl(ty, chk, one(ty), from_u8(ty, b))
    IN  IF Panicked(m) THEN Panic ELSE is_flag_set(ty, chk, v, m[1])

\* bits_as_int with a count of the whole width taken as the full mask
bits_as_int_full_width(ty, chk, v, b, c) ==
    LET s == shr(ty, chk, v, from_u8(ty, b))
    IN  IF Panicked(s) THEN Panic
        ELSE IF c = ty.bits THEN s
        ELSE LET m == shl(ty, chk, one(ty), from_u8(ty, c))
             IN  IF Panicked(m) THEN Panic
                 ELSE LET k == sub(ty, chk, m[1], one(ty))
                      IN  IF Panicked(k) THEN Panic
                          ELSE Some(bitand(ty, s[1], k[1]))

\* bits_as_int with the mask 1 << count, the - 1 forgotten
bits_as_int_no_minus_one(ty, chk, v, b, c) ==
    LET s == shr(ty, chk, v, from_u8(ty, b))
    IN  IF Panicked(s) THEN Panic
        ELSE LET m == shl(ty, chk, one(ty), from_u8(ty, c))
             IN  IF Panicked(m) THEN Panic
                 ELSE Some(bitand(ty, s[1], m[1]))

\* (*self >> Self::from(bit)) & ((1 << Self::from(count)) - 1)
bits_as_int(ty, chk, v, b, c) ==
    LET s == shr(ty, chk, v, from_u8(ty, b))
    IN  IF Panicked(s) THEN Panic
        ELSE LET m == shl(ty, chk, one(ty), from_u8(ty, c))
             IN  IF Panicked(m) THEN Panic
                 ELSE LET k == sub(ty, chk, m[1], one(ty))
                      IN  IF Panicked(k) THEN Panic
                          ELSE Some(bitand(ty, s[1], k[1]))

(***************************************************************************)
(* The inputs.                                                             *)
(***************************************************************************)
\* the literals of the doc comments and of the tests, cut to the width
Literals == {0, 8, 9, 26, 24, 43788, 43981}

NearPowers(ty) ==
    { Wrap(ty, p + d) :
        p \in {0} \cup { Pow2(i) : i \in 0 .. ty.bits - 1 },
        d \in (0 - MaxNear) .. MaxNear }

\* every value of an 8-bit type; of a wider one the literals and the values
\* next to zero and to the powers of two (these hold MIN, MAX and -1)
Values(ty) ==
    IF ty.bits <= 8 THEN MinValue(ty) .. MaxValue(ty)
    ELSE NearPowers(ty) \cup { Wrap(ty, l) : l \in Literals }

\* a u8 index or count: up to MaxOver past the width, and u8::MAX
U8Args(ty) == (0 .. ty.bits + MaxOver) \cup {Pow2(8) - 1}

NoResult == [kind |-> "none", val |-> 0]
\* how a call that evaluated to r ends
Outcome(kind, r) ==
    IF Panicked(r) THEN [kind |-> "panic", val |-> 0]
    ELSE [kind |-> kind, val |-> r[1]]

Init ==
    /\ T \in Types
    /\ overflow_checks \in BOOLEAN
    /\ self \in Values(T)
    /\ op = "none"
    /\ bit = 0
    /\ count = 0
    /\ flag = 0
    /\ result = NoResult

CallIsFlag ==
    /\ op = "none"
    /\ op' = "is_flag"
    /\ result' = Outcome("bool", is_flag(T, overflow_checks, self))
    /\ UNCHANGED <<T, overflow_checks, self, bit, count, flag>>

CallIsBitSet ==
    /\ op = "none"
    /\ \E b \in U8Args(T) :
        /\ bit' = b
        /\ result' = Outcome("bool", is_bit_set(T, overflow_checks, self, b))
    /\ op' = "is_bit_set"
    /\ UNCHANGED <<T, overflow_checks, self, count, flag>>

CallIsFlagSet ==
    /\ op = "none"
    /\ \E f \in Values(T) :
        /\ flag' = f
        /\ result' = Outcome("bool", is_flag_set(T, overflow_checks, self, f))
    /\ op' = "is_flag_set"
    /\ UNCHANGED <<T, overflow_checks, self, bit, count>>

CallBitsAsInt ==
    /\ op = "none"
    /\ \E b \in U8Args(T), c \in U8Args(T) :
        /\ bit' = b
        /\ count' = c
        /\ result' = Outcome("int", bits_as_int(T, overflow_checks, self, b, c))
    /\ op' = "bits_as_int"
    /\ UNCHANGED <<T, overflow_checks, self, flag>>

Next ==
    \/ CallIsFlag
    \/ CallIsBitSet
    \/ CallIsFlagSet
    \/ CallBitsAsInt

Spec == Init /\ [][Next]_vars

TypeOK ==
    /\ T \in Types
    /\ overflow_checks \in BOOLEAN
    /\ self \in MinValue(T) .. MaxValue(T)
    /\ flag \in MinValue(T) .. MaxValue(T)
    /\ bit \in 0 .. Pow2(8) - 1
    /\ count \in 0 .. Pow2(8) - 1
    /\ op \in {"none", "is_flag", "is_bit_set", "is_flag_set", "bits_as_int"}
    /\ result.kind \in {"none", "panic", "bool", "int"}
    /\ result.kind = "int" => result.val \in MinValue(T) .. MaxValue(T)
    /\ result.kind = "bool" => result.val \in BOOLEAN

(***************************************************************************)
(* What the claims are stated with: the bits of a value, read off its      *)
(* two's complement pattern.                                               *)
(***************************************************************************)
\* bit i of v, counted from the least significant bit
BitOf(ty, v, i) == (Pattern(ty, v) \div Pow2(i)) % 2
\* the number of bits of v that are set
SetBits(ty, v) == Cardinality({ i \in 0 .. ty.bits - 1 : BitOf(ty, v, i) = 1 })
\* the bits start .. start + n - 1 of v, read as an n-bit unsigned number
RECURSIVE Field(_, _, _, _)
Field(ty, v, start, n) ==
    IF n = 0 THEN 0
    ELSE BitOf(ty, v, start) + 2 * Field(ty, v, start + 1, n - 1)

Returned(kind) == result.kind = kind
Faulted == result.kind = "panic"

C2_IsBitSetIffBit ==
    (op = "is_bit_set" /\ bit < T.bits) =>
        /\ Returned("bool")
        /\ result.val <=> (BitOf(T, self, bit) = 1)

\* C3: for a bit index of the width or more, is_bit_set ends in the
\* out-of-range fault and returns no boolean.
C3_IsBitSetFaultsPastWidth ==
    (op = "is_bit_set" /\ bit >= T.bits) => Faulted

\* C4: bits_as_int ends in the out-of-range fault whenever start or count
\* is the width or more.
C4_BitsAsIntFaultsPastWidth ==
    (op = "bits_as_int" /\ (bit >= T.bits \/ count >= T.bits)) => Faulted

\* C5: is_flag_set(v, mask) is true exactly when v and mask share a set
\* bit, for the signed and the unsigned types alike.
C5_IsFlagSetIffSharedBit ==
    op = "is_flag_set" =>
        /\ Returned("bool")
        /\ result.val <=>
             (\E i \in 0 .. T.bits - 1 :
                 BitOf(T, self, i) = 1 /\ BitOf(T, flag, i) = 1)

\* C6: with count below the width and start + count within the width,
\* bits_as_int returns, without fault, the count bits of v from start on as
\* a non-negative number.  Stated for the bit positions that exist, start
\* below the width; the claim's range also admits start = W with count = 0.
C6_BitsAsIntExtractsField ==
    (/\ op = "bits_as_int"
     /\ bit < T.bits
     /\ count < T.bits
     /\ bit + count <= T.bits) =>
        /\ Returned("int")
        /\ result.val = Field(T, self, bit, count)

C8_CountZeroReturnsZero ==
    (op = "bits_as_int" /\ count = 0) =>
        /\ Returned("int")
        /\ result.val = 0

\* C8, amended: bits_as_int(v, start, 0) returns zero for any start below
\* the width; for a start of the width or more it ends in the out-of-range
\* fault in a build with overflow checks and returns zero in one without.
C8_CountZeroReturnsZeroInRange ==
    (op = "bits_as_int" /\ count = 0) =>
        IF bit >= T.bits /\ overflow_checks THEN Faulted
        ELSE Returned("int") /\ result.val = 0

\* no bits were asked for at the top bit of a value that has it set
C8_Witness ==
    /\ op = "bits_as_int"
    /\ count = 0
    /\ bit = T.bits - 1
    /\ BitOf(T, self, bit) = 1
    /\ Returned("int")

C10_SingleBitQueriesAgree ==
    (op = "is_bit_set" /\ bit < T.bits) =>
        /\ Returned("bool")
        /\ result.val <=>
             (bits_as_int(T, overflow_checks, self, bit, 1) = Some(1))
====
